---------------------------- MODULE Spec2Model ----------------------------
(***************************************************************************)
(* A model of librnx's DORIS RINEX data-block reader:                      *)
(*   DorisObsRinex::DorisObsRinex        (src/src/doris/doris_rinex.cpp)   *)
(*   DorisObsRinex::get_next_data_block  (read_next_data_block.cpp)        *)
(*   resolve_block_epoch                 (read_next_data_block.cpp)        *)
(*   DorisObsRinex::iterator             (doris_rinex.hpp, part_000)       *)
(* Lines are sequences of one-character strings; the C index i of a char   *)
(* buffer is the TLA+ index i + 1.                                         *)
(***************************************************************************)
EXTENDS Integers, Sequences, FiniteSets, TLC

(***************************************************************************)
(* Bounds of the explored inputs and runs.                                 *)
(***************************************************************************)
MaxEpochs == 2

MaxStations == 2

MaxOps == 4

\* the observation codes a header declares, at most
MaxObsCodes == 11

\* calls made in a row on a value of obstypes
MaxCalls == 2

\* calls of set_from_rinex_line made in a row on a Beacon
MaxSets == 2

\* numbers of observation codes a header declares in the explored inputs:
\* none, one, a full data line, and one more than a full data line
ObsCounts == {0, 1, 5, 6}

(***************************************************************************)
(* Program constants.                                                      *)
(***************************************************************************)
MAX_RECORD_CHARS == 124

MAX_OBS_PER_DATA_LINE == 5

\* byte offsets of resolve_block_epoch
EPOCH_FLAG_AT == 31

NUM_STATIONS_AT == 34

CLOCK_OFFSET_AT == 43

CLOCK_OFFSET_LEN == 13

CLOCK_FLAG_AT == 56

\* byte layout of a data line: 3 bytes of beacon id, then slots of 16 bytes,
\* a 14-byte numeric field and two flags
OBS_AT == 3

OBS_SLOT == 16

OBS_FIELD == 14

BEACON_ID_LEN == 3

SCHAR_BITS == 8

\* Beacon: the length of mpool and where its fields start
POOL_LEN == 52

m_station_id_at == 5

m_station_name_at == 10

m_station_domes_at == 40

m_type_at == 51

(***************************************************************************)
(* Characters.                                                             *)
(***************************************************************************)
NUL == "NUL"

TAB == "TAB"

DigitChars == <<"0", "1", "2", "3", "4", "5", "6", "7", "8", "9">>

IsDigit(c) == \E d \in 1..10 : DigitChars[d] = c

DigitVal(c) == (CHOOSE d \in 1..10 : DigitChars[d] = c) - 1

\* isspace of <cctype>, over the model's alphabet
isspace(c) == c \in {" ", TAB}

\* the byte at C index i of a buffer
At(buf, i) == buf[i + 1]

\* the bytes at C indexes [i, i + n) of a buffer
Bytes(buf, i, n) == SubSeq(buf, i + 1, i + n)

Spaces(n) == [i \in 1..n |-> " "]

\* strlen: the C index of the first NUL
RECURSIVE StrLenFrom(_, _)
StrLenFrom(buf, i) ==
    IF i >= Len(buf) \/ At(buf, i) = NUL THEN i ELSE StrLenFrom(buf, i + 1)

strlen(buf) == StrLenFrom(buf, 0)

\* skipws: the C index of the first byte at or after i that is not ' '
RECURSIVE skipws(_, _)
skipws(buf, i) ==
    IF i < Len(buf) /\ At(buf, i) = " " THEN skipws(buf, i + 1) ELSE i

(***************************************************************************)
(* Numbers.  A double is the exact rational n/d, times DBL_MIN when        *)
(* tiny is TRUE.                                                           *)
(***************************************************************************)
RECURSIVE Gcd(_, _)
Gcd(a, b) == IF b = 0 THEN a ELSE Gcd(b, a % b)

Abs(x) == IF x < 0 THEN -x ELSE x

Rat(n, d, tiny) ==
    LET g == Gcd(Abs(n), d)
    IN  IF n = 0 THEN [n |-> 0, d |-> 1, tiny |-> FALSE]
        ELSE [n |-> n \div g, d |-> d \div g, tiny |-> tiny]

\* std::numeric_limits<double>::min()
DBL_MIN == [n |-> 1, d |-> 1, tiny |-> TRUE]

RECEIVER_CLOCK_OFFSET_MISSING == DBL_MIN

OBSERVATION_VALUE_MISSING == DBL_MIN

\* val /= scale
DivByInt(v, s) == Rat(v.n, v.d * s, v.tiny)

\* int -> signed char
ToSignedChar(v) ==
    LET m == v % (2 ^ SCHAR_BITS)
    IN  IF m >= 2 ^ (SCHAR_BITS - 1) THEN m - 2 ^ SCHAR_BITS ELSE m

RECURSIVE Pow10(_)
Pow10(n) == IF n = 0 THEN 1 ELSE 10 * Pow10(n - 1)

\* the number of leading digits of s
RECURSIVE NumDigits(_)
NumDigits(s) ==
    IF s # <<>> /\ IsDigit(Head(s)) THEN 1 + NumDigits(Tail(s)) ELSE 0

\* the value of a sequence of digits
RECURSIVE DigitsVal(_)
DigitsVal(s) ==
    IF s = <<>> THEN 0
    ELSE DigitsVal(SubSeq(s, 1, Len(s) - 1)) * 10 + DigitVal(s[Len(s)])

\* std::from_chars(first, last, int&): an optional '-', then digits
from_chars_int(s) ==
    LET neg == s # <<>> /\ Head(s) = "-"
        value(v) == IF neg THEN -v ELSE v
        convert(body, nd) ==
            IF nd = 0 THEN [ok |-> FALSE, val |-> 0]
            ELSE [ok |-> TRUE, val |-> value(DigitsVal(SubSeq(body, 1, nd)))]
        digits(body) == convert(body, NumDigits(body))
    IN  digits(IF neg THEN Tail(s) ELSE s)

\* std::from_chars(first, last, double&): an optional '-', digits, an
\* optional '.' and digits, with at least one digit (the alphabet of the
\* model holds no exponent, "inf" or "nan")
from_chars_double(s) ==
    LET neg == s # <<>> /\ Head(s) = "-"
        value(mant, nf) == Rat(IF neg THEN -mant ELSE mant, Pow10(nf), FALSE)
        \* ni integer digits, then rest, of which nf are fraction digits
        convert(body, ni, rest, nf) ==
            IF ni + nf = 0 THEN [ok |-> FALSE, val |-> Rat(0, 1, FALSE)]
            ELSE [ok |-> TRUE,
                  val |-> value(DigitsVal(SubSeq(body, 1, ni)) * Pow10(nf)
                                  + DigitsVal(SubSeq(rest, 2, nf + 1)), nf)]
        fraction(body, ni, rest) ==
            convert(body, ni, rest,
                    IF rest # <<>> /\ Head(rest) = "."
                    THEN NumDigits(Tail(rest)) ELSE 0)
        integer(body, ni) == fraction(body, ni, SubSeq(body, ni + 1, Len(body)))
        digits(body) == integer(body, NumDigits(body))
    IN  digits(IF neg THEN Tail(s) ELSE s)

(***************************************************************************)
(* The input: the data section of a file, described by its shape and by    *)
(* one departure from the well-formed layout.                              *)
(*   e    epoch records              b    beacons declared by each epoch   *)
(*   k    observation codes the header declares                            *)
(*   mut  the departure, at line `at` (1-based) and slot `slot`            *)
(***************************************************************************)
\* lines of one beacon group in a well-formed file: ceil(k / 5)
GroupLines(k) == (k + MAX_OBS_PER_DATA_LINE - 1) \div MAX_OBS_PER_DATA_LINE

\* lines of one epoch record in a well-formed file
RecordLines(b, k) == 1 + b * GroupLines(k)

TotalLines(d) == d.e * RecordLines(d.b, d.k)

\* 1-based line number of the epoch line of record j (0-based)
EpochLineAt(d, j) == 1 + j * RecordLines(d.b, d.k)

\* of line n (1-based) of the well-formed layout: its record, and its place
\* in the record (0 is the epoch line)
RecordOf(d, n) == (n - 1) \div RecordLines(d.b, d.k)

PlaceOf(d, n) == (n - 1) % RecordLines(d.b, d.k)

IsEpochLine(d, n) == PlaceOf(d, n) = 0

\* of a data line: its beacon (0-based) and its line within the group
BeaconOf(d, n) == (PlaceOf(d, n) - 1) \div GroupLines(d.k)

GroupLineOf(d, n) == (PlaceOf(d, n) - 1) % GroupLines(d.k)

IsGroupFirstLine(d, n) == ~IsEpochLine(d, n) /\ GroupLineOf(d, n) = 0

\* number of slots on line l (0-based) of a group
SlotsOn(k, l) ==
    IF k - l * MAX_OBS_PER_DATA_LINE >= MAX_OBS_PER_DATA_LINE
    THEN MAX_OBS_PER_DATA_LINE ELSE k - l * MAX_OBS_PER_DATA_LINE

\* the character of a digit
Dig(n) == DigitChars[n + 1]

\* a non-negative number below 1000, right-justified in 3 bytes (I3)
I3(n) ==
    IF n < 10 THEN <<" ", " ", Dig(n)>>
    ELSE IF n < 100 THEN <<" ", Dig(n \div 10), Dig(n % 10)>>
    ELSE <<Dig(n \div 100), Dig((n \div 10) % 10), Dig(n % 10)>>

\* the date and time of record j, bytes [2, 31) of its epoch line
DateField(j) ==
    <<"2", "0", "2", "0", " ", "0", "1", " ", "0", "1", " ", "0", "1",
      " ", "4", Dig(j),
      " ", "5", "3", ".", "2", "7", "9", "9", "4", "7", "8", "0", "0">>

\* receiver clock offset -4.500 as F13.3, then the clock flag 0
ClockFields == Spaces(7) \o <<"-", "4", ".", "5", "0", "0">> \o <<" ", "0">>

\* '> 2020 01 01 01 4j 53.279947800  0  b         -4.500 0'
EpochLine(j, b) ==
    <<">", " ">> \o DateField(j) \o I3(0) \o I3(b) \o Spaces(6) \o ClockFields

\* the value recorded for record j, beacon g, observation i
ObsNumber(j, g, i) == (100 * (j + 1) + 10 * (g + 1) + i) % 1000

\* a number below 1000 as F14.3
F14(n) == Spaces(7) \o I3(n) \o <<".", "0", "0", "0">>

\* the two flags recorded after observation i
FlagsOf(i) == <<Dig(i % 10), " ">>

\* the numeric field and flags of one slot, or what a departure puts there
SlotBytes(j, g, i, variant) ==
    CASE variant = "ok"      -> F14(ObsNumber(j, g, i)) \o FlagsOf(i)
      [] variant = "blank"   -> Spaces(OBS_FIELD) \o FlagsOf(i)
      [] variant = "tabs"    -> Spaces(6) \o <<TAB>> \o Spaces(7) \o FlagsOf(i)
      [] variant = "garbage" -> Spaces(8) \o <<"x", "2", ".", "0", "0", "0">>
                                  \o FlagsOf(i)
      [] variant = "flags"   -> F14(ObsNumber(j, g, i)) \o <<"x", "-">>

RECURSIVE SlotsBytes(_, _, _, _, _, _)
SlotsBytes(j, g, first, n, badslot, variant) ==
    IF n = 0 THEN <<>>
    ELSE SlotBytes(j, g, first, IF first = badslot THEN variant ELSE "ok")
           \o SlotsBytes(j, g, first + 1, n - 1, badslot, variant)

\* line l of the group of beacon g in record j: 'Dgg' (first line) or three
\* blanks (continuation), then the slots of observations 5l, 5l+1, ...
BeaconLine(j, g, l, k, badslot, variant) ==
    (IF l = 0 THEN <<"D", Dig(((g + 1) \div 10) % 10), Dig((g + 1) % 10)>>
     ELSE Spaces(BEACON_ID_LEN))
      \o SlotsBytes(j, g, l * MAX_OBS_PER_DATA_LINE, SlotsOn(k, l),
                    badslot, variant)

ReplaceAt(line, i, c) == [line EXCEPT ![i + 1] = c]

\* line n of the well-formed layout
PlainLine(d, n) ==
    IF IsEpochLine(d, n) THEN EpochLine(RecordOf(d, n), d.b)
    ELSE BeaconLine(RecordOf(d, n), BeaconOf(d, n), GroupLineOf(d, n), d.k,
                    -1, "ok")

\* line n of the file
LineOf(d, n) ==
    IF n # d.at THEN PlainLine(d, n)
    ELSE CASE d.mut = "nomarker" -> ReplaceAt(PlainLine(d, n), 0, "x")
           [] d.mut = "baddate"  -> ReplaceAt(PlainLine(d, n), 7, "x")
           [] d.mut = "noD"      -> ReplaceAt(PlainLine(d, n), 0, "x")
           [] d.mut = "unknownid" -> ReplaceAt(PlainLine(d, n), 2, "9")
           [] d.mut = "noclock"  ->
                [i \in 1..Len(PlainLine(d, n)) |->
                   IF i - 1 \in CLOCK_OFFSET_AT..(CLOCK_OFFSET_AT + CLOCK_OFFSET_LEN - 1)
                   THEN " " ELSE PlainLine(d, n)[i]]
           [] d.mut = "overlong" -> [i \in 1..(MAX_RECORD_CHARS - 1) |-> "x"]
           [] d.mut = "short"    ->
                SubSeq(PlainLine(d, n), 1,
                       OBS_AT + (d.slot % MAX_OBS_PER_DATA_LINE) * OBS_SLOT)
           [] d.mut \in {"blank", "tabs", "garbage", "flags"} ->
                BeaconLine(RecordOf(d, n), BeaconOf(d, n), GroupLineOf(d, n),
                           d.k, d.slot, d.mut)
           [] OTHER -> PlainLine(d, n)

\* number of lines of the file: a truncated file keeps its first `at` lines
FileLen(d) == IF d.mut = "trunc" THEN d.at ELSE TotalLines(d)

EpochMutations == {"nomarker", "baddate", "overlong"}

\* an epoch line that omits the optional receiver clock offset
EpochVariants == {"noclock"}

\* station counts the I3 field can declare, around the ends of the range of
\* a signed char and of an unsigned char, and the largest
BigStationCounts == {127, 128, 255, 256, 257, 999}

SlotMutations == {"blank", "tabs", "garbage", "flags"}

\* a first line of a beacon group without its 'D', or with the internal code
\* of a beacon the header does not declare
GroupMutations == {"noD", "unknownid"}

\* the internal codes of the beacons the header declares (m_stations)
\* a data line that ends where one of its slots would start: the bytes of
\* that slot and of the slots after it are not in the file
LineMutations == {"short"}

StationCodes(d) == { <<"D", "0", Dig(g)>> : g \in 1..MaxStations }

Shapes ==
    [e : 0..MaxEpochs, b : 0..MaxStations, k : ObsCounts]

Describe(s, mut, at, slot) ==
    [e |-> s.e, b |-> s.b, k |-> s.k,
     mut |-> mut, at |-> at, slot |-> slot]

\* the explored inputs
Inputs ==
    LET plain(s) == Describe(s, "none", 0, 0)
    IN  { plain(s) : s \in Shapes }
        \* "stations": a well-formed file, without observation codes, whose
        \* epochs declare a big station count
        \cup { Describe([e |-> e, b |-> n, k |-> 0], "stations", 0, 0) :
                 e \in 1..MaxEpochs, n \in BigStationCounts }
        \* ... and one with an observation code, whose record declares 256
        \* stations and holds a line for each
        \cup { Describe([e |-> 1, b |-> 256, k |-> 1], "stations", 0, 0) }
        \cup { Describe(s, "trunc", n, 0) :
                 s \in Shapes, n \in 0..(MaxEpochs * RecordLines(MaxStations, 6)) }
        \cup { Describe(s, m, n, 0) :
                 s \in Shapes, m \in EpochMutations \cup EpochVariants \cup GroupMutations,
                 n \in 1..(MaxEpochs * RecordLines(MaxStations, 6)) }
        \cup { Describe(s, m, n, i) :
                 s \in Shapes, m \in SlotMutations \cup LineMutations,
                 n \in 1..(MaxEpochs * RecordLines(MaxStations, 6)),
                 i \in 0..5 }

\* a descriptor that names a line and slot its departure applies to
ValidInput(d) ==
    CASE d.mut \in {"none", "stations"} -> TRUE
      [] d.mut = "trunc" -> d.at < TotalLines(d)
      [] d.mut \in EpochMutations \cup EpochVariants ->
           d.at <= TotalLines(d) /\ IsEpochLine(d, d.at)
      [] d.mut \in GroupMutations ->
           d.at <= TotalLines(d) /\ IsGroupFirstLine(d, d.at)
      [] d.mut \in SlotMutations ->
           /\ d.at <= TotalLines(d)
           /\ ~IsEpochLine(d, d.at)
           /\ (d.slot \div MAX_OBS_PER_DATA_LINE) = GroupLineOf(d, d.at)
           /\ d.slot < d.k
      \* a short line is a line of a beacon after the first of its record:
      \* what the buffer holds past its end are the data lines read before it
      [] d.mut \in LineMutations ->
           /\ d.at <= TotalLines(d)
           /\ ~IsEpochLine(d, d.at)
           /\ BeaconOf(d, d.at) >= 1
           /\ (d.slot \div MAX_OBS_PER_DATA_LINE) = GroupLineOf(d, d.at)
           /\ d.slot < d.k

ValidInputs == { d \in Inputs : ValidInput(d) }

\* the lines of every explored file
FileTable == [d \in ValidInputs |-> [n \in 1..FileLen(d) |-> LineOf(d, n)]]

(***************************************************************************)
(* The state.                                                              *)
(***************************************************************************)
VARIABLES
    input,                \* the file on disk (its data section and header)
    pc,                   \* "start", "ready" (constructor returned),
                          \* "failed" (constructor threw), "aborted"
    header_status,        \* what read_header() returned
    m_obs_codes,          \* DorisObsRinex::m_obs_codes
    m_obs_scale_factors,  \* DorisObsRinex::m_obs_scale_factors
    m_stream,             \* DorisObsRinex::m_stream: next line, eofbit, failbit
    its,                  \* the iterators: m_rnx and m_current of each
    yielded,              \* history: the blocks each iterator held as read
    last,                 \* history: the last operation, the stream and the
                          \* iterator before it, its outcome
    nops,                 \* history: operations performed
    value,                \* obstypes: the value at hand (an argument, or what
                          \* the last call returned or threw)
    trace,                \* obstypes: the calls made, each with its argument
                          \* and its outcome
    station,              \* a Beacon: mpool (the value of each char) and
                          \* m_shift_factor
    sets                  \* history: the calls of set_from_rinex_line on the
                          \* Beacon: the line, the Beacon before, the status

vars ==
    <<input, pc, header_status, m_obs_codes, m_obs_scale_factors, m_stream,
      its, yielded, last, nops, value, trace, station, sets>>

IterIds == {"a", "b"}

\* values an uninitialized int and an uninitialized byte of the line buffer
\* may hold
Junk == {[val |-> 0, fill |-> " "], [val |-> 77, fill |-> "7"]}

(***************************************************************************)
(* std::istream::getline(line, MAX_RECORD_CHARS) on the data section.      *)
(* Every line of the file ends with a newline.  A stream whose eofbit or   *)
(* failbit is set reads nothing, sets failbit and stores a NUL at line[0]; *)
(* so does a stream standing at the end of the file, which also sets       *)
(* eofbit.  A line of MAX_RECORD_CHARS - 1 characters or more fills the    *)
(* buffer and sets failbit alone (where the stream then stands inside the  *)
(* line cannot be observed: only goto_data_block clears failbit, and it    *)
(* seeks).                                                                 *)
(***************************************************************************)
istream_getline(file, stream, line) ==
    LET extract(l) ==
            IF Len(l) >= MAX_RECORD_CHARS - 1
            THEN [stream |-> [stream EXCEPT !.fail = TRUE],
                  line |-> SubSeq(l, 1, MAX_RECORD_CHARS - 1) \o <<NUL>>,
                  ok |-> FALSE]
            ELSE [stream |-> [stream EXCEPT !.pos = @ + 1],
                  line |-> [i \in 1..MAX_RECORD_CHARS |->
                              IF i <= Len(l) THEN l[i]
                              ELSE IF i = Len(l) + 1 THEN NUL ELSE line[i]],
                  ok |-> TRUE]
    IN  IF stream.eof \/ stream.fail
        THEN [stream |-> [stream EXCEPT !.fail = TRUE],
              line |-> [line EXCEPT ![1] = NUL], ok |-> FALSE]
        ELSE IF stream.pos > FileLen(file)
        THEN [stream |-> [stream EXCEPT !.eof = TRUE, !.fail = TRUE],
              line |-> [line EXCEPT ![1] = NUL], ok |-> FALSE]
        ELSE extract(FileTable[file][stream.pos])

\* the bytes [first, last) handed to from_chars (none when first >= last)
CharRange(buf, first, lst) ==
    IF first >= lst THEN <<>> ELSE SubSeq(buf, first + 1, lst)

\* dso::from_char<YYYYMMDD, HHMMSSF, nanoseconds>(line + 2), of the datetime
\* library: the date and time read from bytes [2, 31), or an exception when
\* they hold anything but digits, blanks and the decimal point
from_char_datetime(line) ==
    LET field == Bytes(line, 2, EPOCH_FLAG_AT - 2)
    IN  [ok |-> \A i \in 1..Len(field) :
                  IsDigit(field[i]) \/ field[i] \in {" ", "."},
         val |-> field]

\* DataBlock{} and BeaconObservations{}
NoEpoch == <<>>

EmptyHeader ==
    [m_epoch |-> NoEpoch, m_clock_offset |-> RECEIVER_CLOCK_OFFSET_MISSING,
     m_num_stations |-> 0, m_flag |-> 0, m_clock_flag |-> 0]

EmptyBlock == [mheader |-> EmptyHeader, mbeacon_obs |-> <<>>]

EmptyBeaconObservations ==
    [m_values |-> <<>>, m_beacon_id |-> <<NUL, NUL, NUL, NUL>>]

\* 'if (*line != '>') return 1;': the line starts an epoch record
is_epoch_marker_any(line) == TRUE

is_epoch_marker(line) == At(line, 0) = ">"

\* what hdr.m_clock_offset becomes when the clock offset field is blank
blank_clock_offset_kept(hdr) == hdr.m_clock_offset

blank_clock_offset(hdr) == RECEIVER_CLOCK_OFFSET_MISSING

(***************************************************************************)
(* resolve_block_epoch(line, hdr): the status returned and hdr as left.    *)
(* `junk` is the value of the uninitialized local `val`, stored in a       *)
(* field whose from_chars failed before any succeeded.                     *)
(***************************************************************************)
resolve_block_epoch(line, hdr, junk) ==
    LET sz == strlen(line)
        \* std::memcpy(tbuf, line + at, 3), then from_chars past the blanks
        int3(tbuf) == from_chars_int(CharRange(tbuf, skipws(tbuf, 0), 4))
        has_clock_offset ==
            \E i \in 0..(CLOCK_OFFSET_LEN - 1) :
                At(line, CLOCK_OFFSET_AT + i) # " "
        fields(date, flag, nsta, clock, cflag) ==
            LET val1 == IF flag.ok THEN flag.val ELSE junk
                val2 == IF nsta.ok THEN nsta.val ELSE val1
                val3 == IF cflag.ok THEN cflag.val ELSE val2
                failures ==
                    (IF flag.ok THEN 0 ELSE 1) + (IF nsta.ok THEN 0 ELSE 1)
                      + (IF has_clock_offset /\ ~clock.ok THEN 1 ELSE 0)
                      + (IF cflag.ok THEN 0 ELSE 1)
            IN  IF ~date.ok THEN [status |-> 2, hdr |-> hdr]
                ELSE [status |-> failures,
                      hdr |-> [m_epoch |-> date.val,
                               m_flag |-> ToSignedChar(val1),
                               m_num_stations |-> ToSignedChar(val2),
                               m_clock_offset |->
                                   IF ~has_clock_offset
                                   THEN blank_clock_offset(hdr)
                                   ELSE IF clock.ok THEN clock.val
                                   ELSE hdr.m_clock_offset,
                               m_clock_flag |-> ToSignedChar(val3)]]
    IN  IF ~is_epoch_marker(line) THEN [status |-> 1, hdr |-> hdr]
        ELSE fields(from_char_datetime(line),
                    int3(Bytes(line, EPOCH_FLAG_AT, 3) \o <<NUL>>),
                    int3(Bytes(line, NUM_STATIONS_AT, 3) \o <<NUL>>),
                    from_chars_double(
                        CharRange(line, skipws(line, CLOCK_OFFSET_AT), sz)),
                    from_chars_int(
                        CharRange(line, skipws(line, CLOCK_FLAG_AT), sz)))

(***************************************************************************)
(* DorisObsRinex::get_next_data_block(block).  rnx holds the members the   *)
(* function reads: the file behind m_stream, m_stream, m_obs_codes and     *)
(* m_obs_scale_factors.  The loops run over a record of the locals:        *)
(*   stream, line, block, curobs, curline; done and status once the        *)
(*   function has returned; reads, the getline calls made.                 *)
(***************************************************************************)
\* the check for an omitted value: every byte of buf before its first NUL
\* is white space
buf_is_empty(buf) == \A i \in 0..(strlen(buf) - 1) : isspace(At(buf, i))

\* 'if ((*line) != 'D') ... return 1;': the line starts a beacon group
is_beacon_marker_any(line) == TRUE

is_beacon_marker(line) == At(line, 0) = "D"

\* 'if (!(tres.ec == std::errc{})) ... return 2;'
obs_parse_failed_never(tres) == FALSE

obs_parse_failed(tres) == ~tres.ok

\* what get_next_data_block returns when the epoch line cannot be read:
\* -1 at the end of the file, 1 otherwise
getline_failure_status_error(stream) == 1

getline_failure_status_ignored(stream) == 0

getline_failure_status(stream) == IF stream.eof THEN -1 ELSE 1

\* what get_next_data_block returns when resolve_block_epoch returned rs # 0
header_failure_status_passed(rs) == rs

header_failure_status(rs) == 1

\* flagm1 and flagm2 of the slot at byte off of the line
obs_flags_of_first_slot(line, off) ==
    <<At(line, OBS_AT + OBS_FIELD), At(line, OBS_AT + OBS_FIELD + 1)>>

obs_flags(line, off) ==
    <<At(line, off + OBS_FIELD), At(line, off + OBS_FIELD + 1)>>

\* m_obs_scale_factors[curobs]
scale_factor_first(rnx, curobs) == rnx.m_obs_scale_factors[1]

scale_factor_of(rnx, curobs) == rnx.m_obs_scale_factors[curobs + 1]

\* block.mbeacon_obs.end() - 1
LastBeacon(block) == Len(block.mbeacon_obs)

\* the body of 'while (curobs < (int)m_obs_codes.size())'
RECURSIVE ObsLoop(_, _)
ObsLoop(rnx, s) ==
    LET slot == s.curobs % MAX_OBS_PER_DATA_LINE
        off == OBS_AT + slot * OBS_SLOT
        first == slot = 0 /\ s.curline = 0
        \* m_stream.getline(line, MAX_RECORD_CHARS), its result not looked at
        read(g) == [s EXCEPT !.stream = g.stream, !.line = g.line,
                             !.curline = @ + 1, !.reads = @ + 1]
        \* std::memcpy(it->m_beacon_id, line, 3)
        named(s1) ==
            IF first
            THEN [s1 EXCEPT !.block.mbeacon_obs[LastBeacon(s.block)].m_beacon_id =
                              Bytes(s1.line, 0, BEACON_ID_LEN) \o <<NUL>>]
            ELSE s1
        \* val /= m_obs_scale_factors[curobs]; emplace_back(val, flagm1, flagm2)
        stored(s2, val) ==
            [s2 EXCEPT !.block.mbeacon_obs[LastBeacon(s.block)].m_values =
                         Append(@, [m_value |->
                                      DivByInt(val,
                                          scale_factor_of(rnx, s.curobs)),
                                    m_flag1 |-> obs_flags(s2.line, off)[1],
                                    m_flag2 |-> obs_flags(s2.line, off)[2]]),
                       !.curobs = @ + 1]
        convert(s1, empty, tres) ==
            IF first /\ ~is_beacon_marker(s1.line)
            THEN [s1 EXCEPT !.done = TRUE, !.status = 1]
            ELSE IF ~empty /\ obs_parse_failed(tres)
            THEN [named(s1) EXCEPT !.done = TRUE, !.status = 2]
            ELSE ObsLoop(rnx,
                     stored(named(s1),
                            IF empty THEN OBSERVATION_VALUE_MISSING
                            ELSE tres.val))
        field(s1, buf) ==
            convert(s1, buf_is_empty(buf),
                    from_chars_double(CharRange(buf, skipws(buf, 0), OBS_SLOT)))
        observation(s1) == field(s1, Bytes(s1.line, off, OBS_FIELD) \o <<NUL, NUL>>)
    IN  IF s.curobs >= Len(rnx.m_obs_codes) THEN s
        ELSE observation(IF slot = 0
                         THEN read(istream_getline(rnx.file, s.stream, s.line))
                         ELSE s)

\* 'for (int beacon = 0; beacon < block.mheader.m_num_stations; beacon++)'
RECURSIVE BeaconLoop(_, _, _)
BeaconLoop(rnx, s, beacon) ==
    LET next(s1) == IF s1.done THEN s1 ELSE BeaconLoop(rnx, s1, beacon + 1)
    IN  IF beacon >= s.block.mheader.m_num_stations THEN s
        ELSE next(ObsLoop(rnx,
                      [s EXCEPT !.block.mbeacon_obs =
                                  Append(@, EmptyBeaconObservations),
                                !.curobs = 0, !.curline = 0]))

\* status: < 0 end of file, 0 block read, > 0 error; abort: std::terminate
\* was called (an exception left the noexcept function)
get_next_data_block(rnx, block, junk) ==
    LET returned(s9) ==
            [status |-> s9.status, abort |-> FALSE, m_stream |-> s9.stream,
             block |-> s9.block, reads |-> s9.reads]
        \* block.mbeacon_obs.clear()
        cleared(r) == [mheader |-> r.hdr, mbeacon_obs |-> <<>>]
        beacons(g, r) ==
            IF r.status # 0
            THEN [status |-> header_failure_status(r.status), abort |-> FALSE,
                  m_stream |-> g.stream,
                  block |-> [block EXCEPT !.mheader = r.hdr], reads |-> 1]
            ELSE IF r.hdr.m_num_stations < 0
            \* reserve() of a negative count throws std::length_error
            THEN [status |-> 0, abort |-> TRUE, m_stream |-> g.stream,
                  block |-> cleared(r), reads |-> 1]
            ELSE returned(BeaconLoop(rnx,
                              [stream |-> g.stream, line |-> g.line,
                               block |-> cleared(r), curobs |-> 0,
                               curline |-> 0, done |-> FALSE, status |-> 0,
                               reads |-> 1], 0))
        epoch(g) ==
            IF ~g.ok
            THEN [status |-> getline_failure_status(g.stream), abort |-> FALSE,
                  m_stream |-> g.stream, block |-> block, reads |-> 1]
            ELSE beacons(g, resolve_block_epoch(g.line, block.mheader, junk.val))
    IN  epoch(istream_getline(rnx.file, rnx.m_stream,
                              [i \in 1..MAX_RECORD_CHARS |-> junk.fill]))

\* DorisObsRinex::lines_per_beacon()
lines_per_beacon_floor(codes) == 1 + (Len(codes) \div MAX_OBS_PER_DATA_LINE)

lines_per_beacon(codes) ==
    LET obs == Len(codes)
    IN  1 + (IF obs % MAX_OBS_PER_DATA_LINE = 0
             THEN (obs \div MAX_OBS_PER_DATA_LINE) - 1
             ELSE obs \div MAX_OBS_PER_DATA_LINE)

\* DorisObsRinex::goto_data_block(): m_stream.clear(); seekg(m_end_of_head)
goto_data_block_no_seek(stream) == [stream EXCEPT !.eof = FALSE, !.fail = FALSE]

goto_data_block(stream) == [pos |-> 1, eof |-> FALSE, fail |-> FALSE]

(***************************************************************************)
(* DorisObsRinex::DorisObsRinex(fn): "constructed" when the constructor    *)
(* returns, "failed" when an exception leaves it.  The std::runtime_error  *)
(* thrown for a non-zero status of read_header() is thrown inside the try  *)
(* block, whose handler catches std::exception and returns.                *)
(***************************************************************************)
DorisObsRinex_ctor(status) ==
    LET thrown == status # 0
        caught == thrown
    IN  IF thrown /\ ~caught THEN "failed" ELSE "ready"

\* what read_header() may return: 0, or an error count
HeaderStatuses == {0, 1}

\* the header's observation codes and scale factors, as read_header() fills
\* them: one code and one scale factor for each declared observation type
CodesOf(d) == [i \in 1..d.k |-> i]

ScaleFactorsOf(d) == [i \in 1..d.k |-> i]

(***************************************************************************)
(* DorisObsRinex::iterator.  m_rnx is "rnx" or "nullptr".                  *)
(***************************************************************************)
NoIterator == [made |-> FALSE, m_rnx |-> "nullptr", m_current |-> EmptyBlock]

\* 'if (!m_rnx) return *this;': the iterator is already at end
already_at_end_never(it) == FALSE

already_at_end(it) == it.m_rnx = "nullptr"

\* operator==(a, b) of two iterators: 'return a.m_rnx == b.m_rnx;'
iterator_eq_whole(a, b) == a.m_rnx = b.m_rnx /\ a.m_current = b.m_current

iterator_eq(a, b) == a.m_rnx = b.m_rnx

\* rnx.end(): iterator{}
end == [made |-> TRUE, m_rnx |-> "nullptr", m_current |-> EmptyBlock]

\* iterator::operator++(): the iterator and the stream as left, and the
\* outcome: "noop" (already at end), "block", "end", "error" (it throws
\* std::runtime_error) or "abort" (std::terminate)
iterator_increment(rnx, it, junk) ==
    LET advanced(r) ==
            [it |-> [it EXCEPT !.m_current = r.block,
                               !.m_rnx = IF ~r.abort /\ r.status < 0
                                         THEN "nullptr" ELSE @],
             m_stream |-> r.m_stream,
             outcome |-> IF r.abort THEN "abort"
                         ELSE IF r.status = 0 THEN "block"
                         ELSE IF r.status < 0 THEN "end" ELSE "error",
             status |-> r.status, reads |-> r.reads]
    IN  IF already_at_end(it)
        THEN [it |-> it, m_stream |-> rnx.m_stream, outcome |-> "noop",
              status |-> 0, reads |-> 0]
        ELSE advanced(get_next_data_block(rnx, it.m_current, junk))

(***************************************************************************)
(* Beacon: a station of the header, set from its STATION REFERENCE line.   *)
(* The bytes of mpool are kept by value, as type() returns one as an int.  *)
(***************************************************************************)
\* the characters from ' ' (32) to '_' (95): digits, capitals, punctuation
Ascii ==
    <<" ", "!", "\"", "#", "$", "%", "&", "'", "(", ")", "*", "+",
      ",", "-", ".", "/", "0", "1", "2", "3", "4", "5", "6", "7",
      "8", "9", ":", ";", "<", "=", ">", "?", "@", "A", "B", "C",
      "D", "E", "F", "G", "H", "I", "J", "K", "L", "M", "N", "O",
      "P", "Q", "R", "S", "T", "U", "V", "W", "X", "Y", "Z", "[",
      "\\", "]", "^", "_">>

\* the value of a char
Ord(c) == IF c = NUL THEN 0 ELSE 31 + CHOOSE i \in 1..Len(Ascii) : Ascii[i] = c

\* the values of the chars of a string
Ords(str) == [i \in 1..Len(str) |-> Ord(str[i])]

\* a Beacon as constructed: mpool holds nulls; m_shift_factor, which no
\* constructor sets, is taken as 0
NoBeacon == [mpool |-> [i \in 1..POOL_LEN |-> 0], m_shift_factor |-> 0]

\* 'if (line[0] != 'D') return 1;'
is_station_reference_any(line) == TRUE

is_station_reference(line) == At(line, 0) = Ord("D")

\* mpool[m_type_at] - '0', stored in a char
type_digit_kept(c) == c

type_digit(c) == ToSignedChar(c - Ord("0"))

\* the nulls that mark the strings of mpool
mark_strings_none(mpool) == mpool

mark_strings(mpool) ==
    [mpool EXCEPT ![3 + 1] = 0, ![9 + 1] = 0, ![39 + 1] = 0, ![49 + 1] = 0,
                  ![50 + 1] = 0]

\* Beacon::set_from_rinex_line(line): the beacon it leaves and its status
set_from_rinex_line(b, line) ==
    IF ~is_station_reference(line)
    THEN [beacon |-> b, status |-> 1]
    ELSE LET copied == Bytes(line, 0, POOL_LEN)
             typed(mpool) ==
                 [mpool EXCEPT ![m_type_at + 1] = type_digit(@)]
         IN  [beacon |-> [b EXCEPT !.mpool = mark_strings(typed(copied))],
              status |-> 0]

\* the string that starts at a byte of mpool: the bytes before the first null
\* at or after it
StringAt(mpool, at) ==
    LET nul == CHOOSE e \in at..POOL_LEN :
                   /\ e = POOL_LEN \/ At(mpool, e) = 0
                   /\ \A i \in at..(e - 1) : At(mpool, i) # 0
    IN  Bytes(mpool, at, nul - at)

\* Beacon::id(), name(), domes(), type()
Beacon_id(b) == StringAt(b.mpool, m_station_id_at)

Beacon_name(b) == StringAt(b.mpool, m_station_name_at)

Beacon_domes(b) == StringAt(b.mpool, m_station_domes_at)

Beacon_type(b) == At(b.mpool, m_type_at)

(***************************************************************************)
(* obstypes: the observation types, their letters, the observation code.   *)
(***************************************************************************)
\* enum class DorisObservationType : char, by the value of each enumerator
phase == 0
pseudorange == 1
power_level == 2
frequency_offset == 3
ground_pressure == 4
ground_temperature == 5
ground_humidity == 6

DorisObservationTypes ==
    {phase, pseudorange, power_level, frequency_offset, ground_pressure,
     ground_temperature, ground_humidity}

\* a value at hand: an observation type (n), a character (c), the arguments
\* of a constructor (n, f), an observation code (m_type n, m_freq f), a
\* number of codes or of lines (n), or the exception a call left with (c)
Val(kind, n, c, f) == [kind |-> kind, n |-> n, c |-> c, f |-> f]

NoValue == Val("none", 0, "", 0)

AType(o) == Val("type", o, "", 0)

AChar(c) == Val("char", 0, c, 0)

runtime_error == Val("throw", 0, "runtime_error", 0)

\* dso::dobstype_to_char(o), the letter that stands for an observation type
dobstype_to_char_always_L(o) == AChar("L")

dobstype_to_char(o) ==
    CASE o = phase              -> AChar("L")
      [] o = pseudorange        -> AChar("C")
      [] o = power_level        -> AChar("W")
      [] o = frequency_offset   -> AChar("F")
      [] o = ground_pressure    -> AChar("P")
      [] o = ground_temperature -> AChar("T")
      [] o = ground_humidity    -> AChar("H")
      [] OTHER                  -> runtime_error

\* the default: of the switch of char_to_dobstype
unknown_char_is_phase(c) == AType(phase)

unknown_char(c) == runtime_error

\* dso::char_to_dobstype(c)
char_to_dobstype(c) ==
    CASE c = "L" -> AType(phase)
      [] c = "C" -> AType(pseudorange)
      [] c = "W" -> AType(power_level)
      [] c = "F" -> AType(frequency_offset)
      [] c = "P" -> AType(ground_pressure)
      [] c = "T" -> AType(ground_temperature)
      [] c = "H" -> AType(ground_humidity)
      [] OTHER   -> unknown_char(c)

\* dso::DorisObservationType_to_char(o), the same translation under the name
\* the first obstypes.hpp declares
DorisObservationType_to_char(o) ==
    CASE o = phase              -> AChar("L")
      [] o = pseudorange        -> AChar("C")
      [] o = power_level        -> AChar("W")
      [] o = frequency_offset   -> AChar("F")
      [] o = ground_pressure    -> AChar("P")
      [] o = ground_temperature -> AChar("T")
      [] o = ground_humidity    -> AChar("H")
      [] OTHER                  -> runtime_error

\* dso::char_to_observationType(c)
char_to_observationType(c) ==
    CASE c = "L" -> AType(phase)
      [] c = "C" -> AType(pseudorange)
      [] c = "W" -> AType(power_level)
      [] c = "F" -> AType(frequency_offset)
      [] c = "P" -> AType(ground_pressure)
      [] c = "T" -> AType(ground_temperature)
      [] c = "H" -> AType(ground_humidity)
      [] OTHER   -> runtime_error

\* the two translations of a type to its letter, and of a letter to its type
ToCharNames == {"dobstype_to_char", "DorisObservationType_to_char"}

ToTypeNames == {"char_to_dobstype", "char_to_observationType"}

to_char(name, o) ==
    IF name = "dobstype_to_char" THEN dobstype_to_char(o)
    ELSE DorisObservationType_to_char(o)

to_type(name, c) ==
    IF name = "char_to_dobstype" THEN char_to_dobstype(c)
    ELSE char_to_observationType(c)

\* dso::dobstype_has_frequency(type)
dobstype_has_frequency_always(type) == TRUE

dobstype_has_frequency(type) ==
    CASE type \in {phase, pseudorange, power_level} -> TRUE
      [] type \in {frequency_offset, ground_pressure, ground_temperature,
                   ground_humidity} -> FALSE
      [] OTHER -> FALSE

\* DorisObservationCode::DorisObservationCode(type, freq): m_freq(freq)
\* narrows the int to the signed char the member is
DorisObservationCode(type, freq) ==
    LET made(m_type, m_freq) ==
            IF dobstype_has_frequency(m_type)
            THEN IF m_freq < 1 \/ m_freq > 2
                 THEN runtime_error
                 ELSE Val("code", m_type, "", m_freq)
            ELSE Val("code", m_type, "", 0)
    IN  made(type, ToSignedChar(freq))

\* *m_rnx, the one DorisObsRinex every iterator points to, with its stream
Rnx_from_start(stream) ==
    [file |-> input, m_stream |-> [pos |-> 1, eof |-> FALSE, fail |-> FALSE],
     m_obs_codes |-> m_obs_codes, m_obs_scale_factors |-> m_obs_scale_factors]

Rnx(stream) ==
    [file |-> input, m_stream |-> stream, m_obs_codes |-> m_obs_codes,
     m_obs_scale_factors |-> m_obs_scale_factors]

Init ==
    /\ input \in ValidInputs
    /\ pc = "start"
    /\ header_status = 0
    /\ m_obs_codes = <<>>
    /\ m_obs_scale_factors = <<>>
    /\ m_stream = [pos |-> 1, eof |-> FALSE, fail |-> FALSE]
    /\ its = [i \in IterIds |-> NoIterator]
    /\ yielded = [i \in IterIds |-> <<>>]
    /\ last = [op |-> "none", iter |-> "a", status |-> 0, outcome |-> "noop",
               stream |-> [pos |-> 1, eof |-> FALSE, fail |-> FALSE],
               reads |-> 0, before |-> NoIterator, block |-> EmptyBlock,
               found |-> [pos |-> 1, eof |-> FALSE, fail |-> FALSE]]
    /\ nops = 0
    /\ value = NoValue
    /\ trace = <<>>
    /\ station = NoBeacon
    /\ sets = <<>>

\* DorisObsRinex rnx(fn)
Construct(status) ==
    /\ pc = "start"
    /\ pc' = DorisObsRinex_ctor(status)
    /\ header_status' = status
    /\ m_obs_codes' = IF status = 0 THEN CodesOf(input) ELSE <<>>
    /\ m_obs_scale_factors' = IF status = 0 THEN ScaleFactorsOf(input) ELSE <<>>
    /\ last' = [last EXCEPT !.op = "ctor", !.status = status]
    /\ UNCHANGED <<input, m_stream, its, yielded, nops, value, trace,
                   station, sets>>

\* it = rnx.begin(): iterator{*this} rewinds the stream and increments; an
\* exception thrown by the increment leaves begin(), which is noexcept
Begin(i, junk) ==
    /\ pc = "ready"
    /\ header_status = 0
    /\ nops < MaxOps
    /\ LET it0 == [made |-> TRUE, m_rnx |-> "rnx", m_current |-> EmptyBlock]
       IN  \E r \in {iterator_increment(Rnx(goto_data_block(m_stream)), it0, junk)} :
           LET dead == r.outcome \in {"error", "abort"}
           IN
           /\ pc' = IF dead THEN "aborted" ELSE pc
           /\ m_stream' = r.m_stream
           /\ its' = IF dead THEN its ELSE [its EXCEPT ![i] = r.it]
           /\ yielded' = [yielded EXCEPT ![i] =
                            IF r.outcome = "block" THEN <<r.it.m_current>>
                            ELSE <<>>]
           /\ last' = [op |-> "begin", iter |-> i, status |-> r.status,
                       outcome |-> r.outcome,
                       stream |-> goto_data_block(m_stream),
                       reads |-> r.reads, before |-> it0,
                       block |-> r.it.m_current, found |-> m_stream]
    /\ nops' = nops + 1
    /\ UNCHANGED <<input, header_status, m_obs_codes, m_obs_scale_factors,
                   value, trace, station, sets>>

\* ++it (the caller catches what it throws)
Increment(i, junk) ==
    /\ pc = "ready"
    /\ its[i].made
    /\ nops < MaxOps
    /\ \E r \in {iterator_increment(Rnx(m_stream), its[i], junk)} :
           /\ pc' = IF r.outcome = "abort" THEN "aborted" ELSE pc
           /\ m_stream' = r.m_stream
           /\ its' = [its EXCEPT ![i] = r.it]
           /\ yielded' = [yielded EXCEPT ![i] =
                            IF r.outcome = "block"
                            THEN Append(@, r.it.m_current) ELSE @]
           /\ last' = [op |-> "incr", iter |-> i, status |-> r.status,
                       outcome |-> r.outcome, stream |-> m_stream,
                       reads |-> r.reads, before |-> its[i],
                       block |-> r.it.m_current, found |-> m_stream]
    /\ nops' = nops + 1
    /\ UNCHANGED <<input, header_status, m_obs_codes, m_obs_scale_factors,
                   value, trace, station, sets>>

Next ==
    \/ \E status \in HeaderStatuses : Construct(status)
    \/ \E junk \in Junk : Begin("a", junk)
    \/ \E junk \in Junk : Increment("a", junk)

Spec == Init /\ [][Next]_vars

(***************************************************************************)
(* The functions of obstypes and lines_per_beacon(), applied to arguments  *)
(* drawn from bounded sets: no file is opened.                             *)
(***************************************************************************)
NoInput == [e |-> 0, b |-> 0, k |-> 0, mut |-> "none", at |-> 0, slot |-> 0]

\* an observation type, and a value of the enumeration's char that names none
TypeArgs == DorisObservationTypes \cup {ground_humidity + 1}

\* the seven letters, other capitals, the letters in lower case, digits,
\* white space and NUL
CharArgs ==
    {"L", "C", "W", "F", "P", "T", "H"}
      \cup {"A", "B", "D", "E", "G", "I", "M", "S", "U", "X", "Z"}
      \cup {"l", "c", "w", "f", "p", "t", "h"}
      \cup {"0", "1", "2", ">", " ", TAB, NUL}

\* frequencies: the two of DORIS, their neighbours, and ints a signed char
\* does not hold
FreqArgs == {-255, -1, 0, 1, 2, 3, 127, 128, 256, 257, 258, 259}

CountArgs == 0..MaxObsCodes

Args ==
    { AType(t) : t \in TypeArgs }
      \cup { AChar(c) : c \in CharArgs }
      \cup { Val("args", t, "", f) : t \in TypeArgs, f \in FreqArgs }
      \cup { Val("count", n, "", 0) : n \in CountArgs }

ObsInit ==
    /\ input = NoInput
    /\ pc = "start"
    /\ header_status = 0
    /\ m_obs_codes = <<>>
    /\ m_obs_scale_factors = <<>>
    /\ m_stream = [pos |-> 1, eof |-> FALSE, fail |-> FALSE]
    /\ its = [i \in IterIds |-> NoIterator]
    /\ yielded = [i \in IterIds |-> <<>>]
    /\ last = [op |-> "none", iter |-> "a", status |-> 0, outcome |-> "noop",
               stream |-> [pos |-> 1, eof |-> FALSE, fail |-> FALSE],
               reads |-> 0, before |-> NoIterator, block |-> EmptyBlock,
               found |-> [pos |-> 1, eof |-> FALSE, fail |-> FALSE]]
    /\ nops = 0
    /\ value \in Args
    /\ trace = <<>>
    /\ station = NoBeacon
    /\ sets = <<>>

Call(fn, out) ==
    /\ Len(trace) < MaxCalls
    /\ value' = out
    /\ trace' = Append(trace, [fn |-> fn, arg |-> value, out |-> out])
    /\ UNCHANGED <<input, pc, header_status, m_obs_codes, m_obs_scale_factors,
                   m_stream, its, yielded, last, nops, station, sets>>

\* c = dobstype_to_char(o)
ToChar(name) ==
    /\ value.kind = "type"
    /\ Call(name, to_char(name, value.n))

\* o = char_to_dobstype(c)
ToType(name) ==
    /\ value.kind = "char"
    /\ Call(name, to_type(name, value.c))

\* DorisObservationCode code(type, freq)
MakeCode ==
    /\ value.kind = "args"
    /\ Call("DorisObservationCode", DorisObservationCode(value.n, value.f))

\* n = rnx.lines_per_beacon(), rnx holding value.n observation codes
LinesPerBeacon ==
    /\ value.kind = "count"
    /\ Call("lines_per_beacon",
            Val("lines", lines_per_beacon([i \in 1..value.n |-> i]), "", 0))

ObsNext ==
    \/ \E name \in ToCharNames : ToChar(name)
    \/ \E name \in ToTypeNames : ToType(name)
    \/ MakeCode
    \/ LinesPerBeacon

ObsSpec == ObsInit /\ [][ObsNext]_vars

(***************************************************************************)
(* Properties.  They speak of the last operation through `last`: the       *)
(* stream and the iterator before it, and what it reported.                *)
(***************************************************************************)
\* the last operation called get_next_data_block
Called == last.op \in {"begin", "incr"} /\ last.before.m_rnx = "rnx"

\* ... and its first getline read a whole line of the file
ReadEpochLine ==
    /\ Called
    /\ ~last.stream.eof /\ ~last.stream.fail
    /\ last.stream.pos <= FileLen(input)
    /\ Len(FileTable[input][last.stream.pos]) < MAX_RECORD_CHARS - 1

\* the line it read
EpochLineRead == FileTable[input][last.stream.pos]

\* ... and that line is the untouched epoch line of a record of the layout
StartedRecord ==
    /\ ReadEpochLine
    /\ IsEpochLine(input, last.stream.pos)
    /\ is_epoch_marker(EpochLineRead)
    /\ from_char_datetime(EpochLineRead).ok

\* the departure of the file lies in the record the last operation started
DepartureInRecord ==
    /\ StartedRecord
    /\ input.at >= 1
    /\ RecordOf(input, input.at) = RecordOf(input, last.stream.pos)

----------------------------------------------------------------------------
\* C1 (as claimed): whenever read_header() reports a non-zero status the
\* construction fails: an exception reaches the caller and no object exists.
C1_ConstructionFailsOnHeaderError ==
    (pc # "start" /\ header_status # 0) => pc = "failed"

----------------------------------------------------------------------------
\* the block read from record j (0-based) of a well-formed file: its epoch,
\* b beacons in file order, k values each
BlockOfRecord(block, j) ==
    /\ block.mheader.m_epoch = DateField(j)
    /\ block.mheader.m_num_stations = input.b
    /\ Len(block.mbeacon_obs) = input.b
    /\ \A g \in 1..Len(block.mbeacon_obs) :
         /\ Len(block.mbeacon_obs[g].m_values) = input.k
         /\ input.k > 0 =>
              block.mbeacon_obs[g].m_beacon_id = <<"D", "0", Dig(g), NUL>>

----------------------------------------------------------------------------
\* C3: when the stream is exhausted where the next epoch line would start,
\* get_next_data_block returns a negative status, the iterator becomes equal
\* to end(), and nothing is thrown.
C3_EndOfFileAtEpochIsEnd ==
    (Called /\ last.stream.pos > FileLen(input)) =>
        /\ last.status < 0
        /\ last.outcome = "end"
        /\ pc = "ready"
        /\ its[last.iter].made /\ its[last.iter].m_rnx = "nullptr"

C3_Witness ==
    /\ last.op = "incr" /\ Called
    /\ last.stream.pos > FileLen(input)
    /\ Len(yielded["a"]) >= 1
    /\ its["a"].m_rnx = "nullptr"

----------------------------------------------------------------------------
\* C4: an increment of an iterator that has reached End leaves it equal to
\* end(), calls no getline on the stream and yields no new block.
C4_EndIsTerminal ==
    [][(its["a"].made /\ its["a"].m_rnx = "nullptr" /\ last'.op = "incr")
         => /\ its' = its
            /\ m_stream' = m_stream
            /\ yielded' = yielded
            /\ last'.reads = 0 /\ last'.outcome = "noop"]_vars

C4_Witness ==
    /\ last.op = "incr"
    /\ last.before.made /\ last.before.m_rnx = "nullptr"
    /\ its["a"].m_rnx = "nullptr"

----------------------------------------------------------------------------
\* C5 (as claimed): after an increment of an iterator failed with an error,
\* every later increment of it reports the same error, consumes no line of
\* the stream and yields neither a block nor End.
C5_ErrorIsTerminal ==
    [][(last.op = "incr" /\ last.outcome = "error" /\ last'.op = "incr")
         => /\ last'.outcome = "error" /\ last'.status = last.status
            /\ m_stream' = m_stream
            /\ yielded' = yielded]_vars

----------------------------------------------------------------------------
\* C6 (as claimed): when the file ends after the epoch line of a record was
\* read and before the last line of the record, the outcome is an error,
\* whichever line of the record is the first one missing.
C6_TruncatedRecordIsError ==
    (StartedRecord /\ input.mut = "trunc"
       /\ FileLen(input)
            < last.stream.pos + RecordLines(input.b, input.k) - 1)
        => last.outcome = "error"

----------------------------------------------------------------------------
\* C7: when the line read at the epoch position does not start with '>', the
\* outcome is an error and the block (header and beacons) is as it was
\* before the call.
C7_NoMarkerIsErrorAndBlockUntouched ==
    (ReadEpochLine /\ At(EpochLineRead, 0) # ">") =>
        /\ last.outcome = "error"
        /\ last.status > 0
        /\ last.block = last.before.m_current
        /\ last.op = "incr" => its[last.iter].m_current = last.before.m_current

C7_Witness ==
    /\ ReadEpochLine /\ At(EpochLineRead, 0) # ">"
    /\ input.mut = "nomarker" /\ last.stream.pos = input.at
    /\ last.op = "incr"
    /\ last.before.m_current # EmptyBlock

----------------------------------------------------------------------------
\* C8: when the first line of a beacon group of the record being decoded
\* does not start with 'D', get_next_data_block returns the error status 1
\* and no block is yielded.
C8_BeaconGroupWithoutDIsError ==
    (DepartureInRecord /\ input.mut = "noD") =>
        /\ last.outcome = "error"
        /\ last.status = 1
        /\ Len(last.block.mbeacon_obs) = BeaconOf(input, input.at) + 1
        /\ last.block.mbeacon_obs[BeaconOf(input, input.at) + 1].m_values = <<>>

C8_Witness ==
    /\ DepartureInRecord /\ input.mut = "noD"
    /\ BeaconOf(input, input.at) = 1
    /\ last.outcome = "error"

----------------------------------------------------------------------------
\* the last operation read an epoch line that does not start with '>', or
\* one whose date does not parse
EpochLineRejected ==
    /\ ReadEpochLine
    /\ \/ At(EpochLineRead, 0) # ">"
       \/ ~from_char_datetime(EpochLineRead).ok

\* what the caller sees of an increment
Reported(r) == <<r.outcome, r.status>>

\* the last operation, repeated on the file whose line `at` has its marker
\* replaced instead of its date
SiblingIncrement ==
    iterator_increment(
        [Rnx(last.stream) EXCEPT !.file = [input EXCEPT !.mut = "nomarker"]],
        last.before, CHOOSE junk \in Junk : TRUE)

----------------------------------------------------------------------------
\* the 14-byte numeric field of slot `slot` on line `at` of the file
FieldAt(d) ==
    Bytes(FileTable[d][d.at],
          OBS_AT + (d.slot % MAX_OBS_PER_DATA_LINE) * OBS_SLOT, OBS_FIELD)

\* ... is not all blank and does not convert to a number
UnparsableField(d) ==
    /\ d.mut \in SlotMutations
    /\ \E i \in 1..OBS_FIELD : ~isspace(FieldAt(d)[i])
    /\ ~from_chars_double(
           CharRange(FieldAt(d), skipws(FieldAt(d), 0), OBS_FIELD)).ok

----------------------------------------------------------------------------
\* the station count the I3 field at bytes [34, 37) of the line read declares
DeclaredStations ==
    from_chars_int(
        CharRange(Bytes(EpochLineRead, NUM_STATIONS_AT, 3),
                  skipws(Bytes(EpochLineRead, NUM_STATIONS_AT, 3), 0), 3)).val

\* C11 (as claimed): a block returned as successfully read holds as many
\* BeaconObservations as the epoch line declares, for every count of 0..999,
\* and its header reports that count.
C11_BlockHoldsDeclaredStations ==
    (StartedRecord /\ last.outcome = "block") =>
        /\ Len(last.block.mbeacon_obs) = DeclaredStations
        /\ last.block.mheader.m_num_stations = DeclaredStations

----------------------------------------------------------------------------
\* the line of the file holding observation i (0-based) of beacon g (0-based)
\* of the record the last operation started
SlotLine(g, i) ==
    last.stream.pos + 1 + g * GroupLines(Len(m_obs_codes))
      + (i \div MAX_OBS_PER_DATA_LINE)

\* the 16 bytes of slot (i mod 5) of line n of the file
SlotOf(n, i) ==
    Bytes(FileTable[input][n],
          OBS_AT + (i % MAX_OBS_PER_DATA_LINE) * OBS_SLOT, OBS_SLOT)

\* line n is in the file and holds the 16 bytes of slot (i mod 5)
HasSlot(n, i) ==
    /\ n <= FileLen(input)
    /\ Len(FileTable[input][n])
         >= OBS_AT + (i % MAX_OBS_PER_DATA_LINE) * OBS_SLOT + OBS_SLOT

\* the number in the 14-byte field of a slot
FieldValue(slot) ==
    from_chars_double(
        CharRange(slot, skipws(SubSeq(slot, 1, OBS_FIELD), 0), OBS_FIELD)).val

\* a slot whose 14-byte field is white space
BlankField(slot) == \A c \in 1..OBS_FIELD : isspace(slot[c])

\* v is what observation i decodes to from the slot: the number of its field
\* (the missing sentinel for a blank one) over scale factor i
DecodedFrom(v, slot, i) ==
    v.m_value =
        DivByInt(IF BlankField(slot) THEN OBSERVATION_VALUE_MISSING
                 ELSE FieldValue(slot),
                 m_obs_scale_factors[i + 1])

\* C12 (as claimed): in every block returned as successfully read, every
\* beacon holds len(obs_codes) values, and value i was decoded from slot
\* (i mod 5) of line (i div 5) of the beacon's group.
C12_ValuesFollowTheSlots ==
    (StartedRecord /\ last.outcome = "block") =>
        \A g \in 1..Len(last.block.mbeacon_obs) :
            /\ Len(last.block.mbeacon_obs[g].m_values) = Len(m_obs_codes)
            /\ \A i \in 1..Len(last.block.mbeacon_obs[g].m_values) :
                 /\ HasSlot(SlotLine(g - 1, i - 1), i - 1)
                 /\ DecodedFrom(last.block.mbeacon_obs[g].m_values[i],
                                SlotOf(SlotLine(g - 1, i - 1), i - 1), i - 1)

\* the lines of the record the last operation started are all in the file,
\* each with all its slots
WholeRecord ==
    /\ StartedRecord
    /\ last.stream.pos + RecordLines(input.b, input.k) - 1 <= FileLen(input)
    /\ \A n \in (last.stream.pos + 1)
                 ..(last.stream.pos + RecordLines(input.b, input.k) - 1) :
         Len(FileTable[input][n]) = Len(PlainLine(input, n))

\* C12, for the records whose lines are all in the file, each with all its
\* slots
C12_ValuesFollowTheSlotsOfWholeRecords ==
    (WholeRecord /\ last.outcome = "block") => C12_ValuesFollowTheSlots

----------------------------------------------------------------------------
\* a slot whose 14-byte field is all spaces
SpacesField(slot) == \A c \in 1..OBS_FIELD : slot[c] = " "

\* C13 (as claimed): the value stored for a slot whose field is all spaces
\* is the missing sentinel, whatever the scale factor of its observation
\* code.
C13_SpacesFieldIsMissing ==
    (StartedRecord /\ last.outcome = "block") =>
        \A g \in 1..Len(last.block.mbeacon_obs) :
            \A i \in 1..Len(last.block.mbeacon_obs[g].m_values) :
                (/\ HasSlot(SlotLine(g - 1, i - 1), i - 1)
                 /\ SpacesField(SlotOf(SlotLine(g - 1, i - 1), i - 1)))
                  => last.block.mbeacon_obs[g].m_values[i].m_value
                       = OBSERVATION_VALUE_MISSING

----------------------------------------------------------------------------
\* C14: in a block returned as successfully read, the value stored for a
\* slot of the file whose field is not blank is the number of the field over
\* the scale factor at the slot's index; it is the number itself when that
\* factor is 1.  In a well-formed file the number of slot i of beacon g of
\* record j is ObsNumber(j, g, i).
C14_ValueIsFieldOverItsScaleFactor ==
    (StartedRecord /\ last.outcome = "block") =>
        \A g \in 1..Len(last.block.mbeacon_obs) :
            \A i \in 1..Len(last.block.mbeacon_obs[g].m_values) :
                (/\ HasSlot(SlotLine(g - 1, i - 1), i - 1)
                 /\ ~BlankField(SlotOf(SlotLine(g - 1, i - 1), i - 1)))
                  => /\ last.block.mbeacon_obs[g].m_values[i].m_value
                          = DivByInt(
                                FieldValue(SlotOf(SlotLine(g - 1, i - 1), i - 1)),
                                m_obs_scale_factors[i])
                     /\ m_obs_scale_factors[i] = 1 =>
                          last.block.mbeacon_obs[g].m_values[i].m_value
                            = FieldValue(SlotOf(SlotLine(g - 1, i - 1), i - 1))
                     /\ input.mut = "none" =>
                          last.block.mbeacon_obs[g].m_values[i].m_value
                            = Rat(ObsNumber(RecordOf(input, last.stream.pos),
                                            g - 1, i - 1),
                                  m_obs_scale_factors[i], FALSE)

C14_Witness ==
    /\ StartedRecord /\ last.outcome = "block"
    /\ input.mut = "none" /\ input.b = 2 /\ input.k = 6
    /\ last.op = "incr"
    /\ last.block.mbeacon_obs[2].m_values[6].m_value = Rat(225, 6, FALSE)
    /\ last.block.mbeacon_obs[2].m_values[1].m_value = Rat(220, 1, FALSE)

----------------------------------------------------------------------------
\* bytes [43, 56) of the epoch line read are all blank
BlankClockOffset ==
    /\ Len(EpochLineRead) >= CLOCK_OFFSET_AT + CLOCK_OFFSET_LEN
    /\ \A c \in 1..CLOCK_OFFSET_LEN :
         Bytes(EpochLineRead, CLOCK_OFFSET_AT, CLOCK_OFFSET_LEN)[c] = " "

\* C15: an epoch line whose receiver clock offset field is blank leaves the
\* missing sentinel in the header of the block, whatever offset the block
\* held before; it is not an error.
C15_BlankClockOffsetIsMissing ==
    (StartedRecord /\ BlankClockOffset) =>
        /\ last.block.mheader.m_clock_offset = RECEIVER_CLOCK_OFFSET_MISSING
        /\ last.block.mheader.m_clock_offset # Rat(0, 1, FALSE)
        /\ input.mut = "noclock" => last.outcome = "block"

C15_Witness ==
    /\ StartedRecord /\ BlankClockOffset
    /\ last.op = "incr" /\ last.outcome = "block"
    /\ last.before.m_current.mheader.m_clock_offset = Rat(-9, 2, FALSE)
    /\ its["a"].m_current.mheader.m_clock_offset = RECEIVER_CLOCK_OFFSET_MISSING

----------------------------------------------------------------------------
\* C16: in a block returned as successfully read, the flags stored for a
\* slot of the file are bytes 14 and 15 of the slot, whether its field is
\* blank or not; a slot whose flags are not digits or blanks is decoded as
\* any other.
C16_FlagsAreTheBytesOfTheSlot ==
    /\ (StartedRecord /\ last.outcome = "block") =>
         \A g \in 1..Len(last.block.mbeacon_obs) :
             \A i \in 1..Len(last.block.mbeacon_obs[g].m_values) :
                 HasSlot(SlotLine(g - 1, i - 1), i - 1) =>
                     /\ last.block.mbeacon_obs[g].m_values[i].m_flag1
                          = SlotOf(SlotLine(g - 1, i - 1), i - 1)[OBS_FIELD + 1]
                     /\ last.block.mbeacon_obs[g].m_values[i].m_flag2
                          = SlotOf(SlotLine(g - 1, i - 1), i - 1)[OBS_FIELD + 2]
    /\ (DepartureInRecord /\ input.mut = "flags") => last.outcome = "block"

C16_Witness ==
    /\ DepartureInRecord /\ input.mut = "flags" /\ input.slot = 5
    /\ last.outcome = "block"
    /\ last.block.mbeacon_obs[BeaconOf(input, input.at) + 1].m_values[6].m_flag1
         = "x"
    /\ last.block.mbeacon_obs[BeaconOf(input, input.at) + 1].m_values[6].m_flag2
         = "-"

\* C16, for a blank field
C16_WitnessBlank ==
    /\ DepartureInRecord /\ input.mut = "blank" /\ input.slot = 3
    /\ last.outcome = "block"
    /\ last.block.mbeacon_obs[BeaconOf(input, input.at) + 1].m_values[4].m_flag1
         = "3"

(***************************************************************************)
(* The loop of the test program:                                           *)
(* for (auto it = rnx.begin(); it != rnx.end(); ++it), which an exception  *)
(* leaves.  Each turn is taken when it can be.                             *)
(***************************************************************************)
\* the loop is over: it == rnx.end(), or an exception left it, or the
\* program was terminated
LoopEnded ==
    \/ pc \in {"failed", "aborted"}
    \/ its["a"].made /\ its["a"].m_rnx = "nullptr"
    \/ last.outcome = "error"

LoopNext ==
    \/ Construct(0)
    \/ \E junk \in Junk : ~its["a"].made /\ Begin("a", junk)
    \/ \E junk \in Junk :
           its["a"].made /\ ~LoopEnded /\ Increment("a", junk)

\* a turn of the loop can be taken: ENABLED <<LoopNext>>_vars
LoopCanStep ==
    \/ pc = "start"
    \/ /\ pc = "ready" /\ header_status = 0 /\ nops < MaxOps
       /\ ~its["a"].made \/ ~LoopEnded

\* what every step of LoopNext does: the constructor returns, or an
\* operation on the iterator is counted
LoopTurn ==
    /\ LoopCanStep
    /\ IF pc = "start"
       THEN pc' = DorisObsRinex_ctor(0) /\ nops' = nops
       ELSE pc' \in {"ready", "aborted"} /\ nops' = nops + 1

\* a turn that can be taken is taken: every step of LoopNext is a LoopTurn
\* and both are enabled in the same states
LoopSpec == Init /\ [][LoopNext]_vars /\ WF_<<pc, nops>>(LoopTurn)

\* C28: for every file the loop terminates: after finitely many increments
\* the iterator is at End or an increment has failed; the turns are never
\* cut short by the bound on the operations explored.
C28_TheLoopTerminates ==
    /\ [](~LoopEnded => nops < MaxOps)
    /\ <>LoopEnded

C28_Witness ==
    /\ input.mut = "none"
    /\ input.e = MaxEpochs
    /\ Len(yielded["a"]) = MaxEpochs
    /\ last.op = "incr" /\ last.outcome = "end"
    /\ its["a"].m_rnx = "nullptr"
    /\ nops = MaxEpochs + 1

\* C28, for a loop that an error ends
C28_WitnessError ==
    /\ input.mut = "baddate"
    /\ Len(yielded["a"]) = 1
    /\ last.op = "incr" /\ last.outcome = "error"

(***************************************************************************)
(* Two iterators over one DorisObsRinex of a well-formed file:             *)
(* a = rnx.begin(), b = rnx.begin(), then ++a and ++b in any order.        *)
(***************************************************************************)
SharedInit == Init /\ input.mut = "none" /\ input.e >= 1

SharedNext ==
    \/ \E status \in HeaderStatuses : Construct(status)
    \/ \E junk \in Junk : ~its["a"].made /\ Begin("a", junk)
    \/ \E junk \in Junk :
           its["a"].made /\ ~its["b"].made /\ nops = 1 /\ Begin("b", junk)
    \/ \E i \in IterIds, junk \in Junk :
           its["a"].made /\ its["b"].made /\ Increment(i, junk)

SharedSpec == SharedInit /\ [][SharedNext]_vars

\* the blocks the increments of an iterator delivered to it, after the one
\* begin() gave it
Delivered(i) == IF yielded[i] = <<>> THEN <<>> ELSE Tail(yielded[i])

\* the records of the file a sequence of blocks holds
RecordsIn(blocks) ==
    { j \in 0..(input.e - 1) :
        \E n \in 1..Len(blocks) : BlockOfRecord(blocks[n], j) }

StationLine(first, b39, b49, ty) ==
    Ords(<<first, "3", "1", " ", " ", "D", "I", "O", "B", " ">>
           \o <<"D", "I", "O", "N", "Y", "S", "O", "S">> \o Spaces(21)
           \o <<b39>>
           \o <<"1", "2", "6", "0", "2", "S", "0", "1", "2">>
           \o <<b49, " ", ty>>
           \o <<" ", " ", " ", "0">>)

StationLines ==
    { StationLine(first, b39, b49, ty) :
        first \in {"D", "X"}, b39 \in {" ", "A"}, b49 \in {" ", "M"},
        ty \in {"1", "2", "3", "4"} }

BeaconInit ==
    /\ input = NoInput
    /\ pc = "start"
    /\ header_status = 0
    /\ m_obs_codes = <<>>
    /\ m_obs_scale_factors = <<>>
    /\ m_stream = [pos |-> 1, eof |-> FALSE, fail |-> FALSE]
    /\ its = [i \in IterIds |-> NoIterator]
    /\ yielded = [i \in IterIds |-> <<>>]
    /\ last = [op |-> "none", iter |-> "a", status |-> 0, outcome |-> "noop",
               stream |-> [pos |-> 1, eof |-> FALSE, fail |-> FALSE],
               reads |-> 0, before |-> NoIterator, block |-> EmptyBlock,
               found |-> [pos |-> 1, eof |-> FALSE, fail |-> FALSE]]
    /\ nops = 0
    /\ value = NoValue
    /\ trace = <<>>
    /\ station = NoBeacon
    /\ sets = <<>>

\* status = station.set_from_rinex_line(line)
SetFromRinexLine(line) ==
    /\ Len(sets) < MaxSets
    /\ \E r \in {set_from_rinex_line(station, line)} :
           /\ station' = r.beacon
           /\ sets' = Append(sets, [line |-> line, before |-> station,
                                    after |-> r.beacon, status |-> r.status])
    /\ UNCHANGED <<input, pc, header_status, m_obs_codes, m_obs_scale_factors,
                   m_stream, its, yielded, last, nops, value, trace>>

BeaconNext == \E line \in StationLines : SetFromRinexLine(line)

BeaconSpec == BeaconInit /\ [][BeaconNext]_vars

(***************************************************************************)
(* Properties of BeaconSpec.                                               *)
(***************************************************************************)
\* C23: set_from_rinex_line returns a non-zero status for every line whose
\* first byte is not 'D' and then leaves the fields of the Beacon as they
\* were before the call; for a line that starts with 'D' it returns 0.
C23_OnlyDLinesSetTheBeacon ==
    \A k \in 1..Len(sets) :
        /\ At(sets[k].line, 0) # Ord("D") =>
               /\ sets[k].status # 0
               /\ sets[k].after = sets[k].before
        /\ At(sets[k].line, 0) = Ord("D") => sets[k].status = 0

C23_Witness ==
    /\ Len(sets) = 2
    /\ sets[1].status = 0
    /\ sets[1].after # NoBeacon
    /\ At(sets[2].line, 0) = Ord("X")
    /\ sets[2].line[m_type_at + 1] # sets[1].line[m_type_at + 1]
    /\ sets[2].status = 1
    /\ station = sets[1].after

\* the calls of set_from_rinex_line that returned 0
Succeeded == { k \in 1..Len(sets) : sets[k].status = 0 }

C25_TypeIsTheValueOfTheDigit ==
    \A k \in Succeeded :
        \A d \in 0..9 :
            At(sets[k].line, m_type_at) = Ord(Dig(d)) =>
                /\ Beacon_type(sets[k].after) = d
                /\ Beacon_type(sets[k].after) # Ord(Dig(d))

C25_Witness ==
    /\ Len(sets) = 1
    /\ sets[1].status = 0
    /\ At(sets[1].line, m_type_at) = Ord("3")
    /\ Beacon_type(station) = 3

(***************************************************************************)
(* Properties of ObsSpec.                                                  *)
(***************************************************************************)
\* the calls made of a function
CallsOf(fns) == { k \in 1..Len(trace) : trace[k].fn \in fns }

\* C17: for every number n >= 1 of declared observation codes,
\* lines_per_beacon() is the least number of lines of 5 values that hold n
\* values, ceil(n / 5): 1 for n in 1..5, 2 for n in 6..10, 3 for n = 11.
C17_LinesPerBeaconIsCeiling ==
    \A k \in CallsOf({"lines_per_beacon"}) :
        trace[k].arg.n >= 1 =>
            /\ trace[k].out.kind = "lines"
            /\ 5 * trace[k].out.n >= trace[k].arg.n
            /\ 5 * (trace[k].out.n - 1) < trace[k].arg.n
            /\ trace[k].arg.n \in 1..5 => trace[k].out.n = 1
            /\ trace[k].arg.n \in 6..10 => trace[k].out.n = 2
            /\ trace[k].arg.n = 11 => trace[k].out.n = 3

C17_Witness ==
    \E k \in CallsOf({"lines_per_beacon"}) :
        trace[k].arg.n = 10 /\ trace[k].out.n = 2

\* C17, for the largest number the claim names
C17_WitnessEleven ==
    \E k \in CallsOf({"lines_per_beacon"}) :
        trace[k].arg.n = 11 /\ trace[k].out.n = 3

\* the letters of the observation types
TypeLetters == {"L", "C", "W", "F", "P", "T", "H"}

\* C18: the translations between the 7 observation types and the letters
\* L, C, W, F, P, T, H are inverse bijections: every type has one of the
\* letters, every one of the letters has a type, the type of the letter of a
\* type t is t, and the letter of the type of a letter c is c.
C18_TypesAndLettersAreInverse ==
    /\ \A k \in CallsOf(ToCharNames) :
           trace[k].arg.n \in DorisObservationTypes =>
               /\ trace[k].out.kind = "char"
               /\ trace[k].out.c \in TypeLetters
               /\ (k < Len(trace) /\ trace[k + 1].fn \in ToTypeNames) =>
                      trace[k + 1].out = trace[k].arg
    /\ \A k \in CallsOf(ToTypeNames) :
           trace[k].arg.c \in TypeLetters =>
               /\ trace[k].out.kind = "type"
               /\ trace[k].out.n \in DorisObservationTypes
               /\ (k < Len(trace) /\ trace[k + 1].fn \in ToCharNames) =>
                      trace[k + 1].out = trace[k].arg

C18_Witness ==
    /\ Len(trace) = 2
    /\ trace[1] = [fn |-> "dobstype_to_char", arg |-> AType(ground_humidity),
                   out |-> AChar("H")]
    /\ trace[2] = [fn |-> "char_to_dobstype", arg |-> AChar("H"),
                   out |-> AType(ground_humidity)]

\* C18, from a letter and back
C18_WitnessLetter ==
    /\ Len(trace) = 2
    /\ trace[1] = [fn |-> "char_to_dobstype", arg |-> AChar("W"),
                   out |-> AType(power_level)]
    /\ trace[2] = [fn |-> "dobstype_to_char", arg |-> AType(power_level),
                   out |-> AChar("W")]

\* C19: for every character that is not one of L, C, W, F, P, T, H, the
\* translation of a character to an observation type leaves with an
\* exception and returns no observation type.
C19_UnknownCharacterThrows ==
    \A k \in CallsOf(ToTypeNames) :
        trace[k].arg.c \notin TypeLetters =>
            /\ trace[k].out = runtime_error
            /\ trace[k].out.kind # "type"

C19_Witness ==
    /\ Len(trace) = 1
    /\ trace[1] = [fn |-> "char_to_dobstype", arg |-> AChar("l"),
                   out |-> runtime_error]

\* the types that go with a frequency
FrequencyTypes == {phase, pseudorange, power_level}

\* C20: every DorisObservationCode that was constructed holds a frequency in
\* {1, 2} if and only if its type is phase, pseudorange or power_level,
\* which are exactly the types has_frequency is true for; for every other
\* type the construction succeeds and the frequency held is 0, whatever
\* frequency was passed in.
C20_FrequencyGoesWithTheType ==
    \A k \in CallsOf({"DorisObservationCode"}) :
        /\ trace[k].out.kind = "code" =>
               /\ trace[k].out.n = trace[k].arg.n
               /\ trace[k].out.f \in {1, 2} <=> trace[k].out.n \in FrequencyTypes
               /\ dobstype_has_frequency(trace[k].out.n)
                      <=> trace[k].out.n \in FrequencyTypes
               /\ trace[k].out.n \notin FrequencyTypes => trace[k].out.f = 0
        /\ trace[k].arg.n \notin FrequencyTypes =>
               trace[k].out = Val("code", trace[k].arg.n, "", 0)

C20_Witness ==
    /\ Len(trace) = 1
    /\ trace[1].fn = "DorisObservationCode"
    /\ trace[1].arg = Val("args", ground_pressure, "", 2)
    /\ trace[1].out = Val("code", ground_pressure, "", 0)

\* C20, for a type that goes with a frequency
C20_WitnessPhase ==
    /\ Len(trace) = 1
    /\ trace[1].fn = "DorisObservationCode"
    /\ trace[1].arg = Val("args", phase, "", 2)
    /\ trace[1].out = Val("code", phase, "", 2)

\* C21: for every type that goes with a frequency and every int frequency
\* other than 1 and 2 (0, 3, negative numbers, numbers that differ from 1 or
\* 2 by a multiple of 256), the construction of a DorisObservationCode
\* leaves with an exception; with the frequency 1 or 2 it succeeds.
C21_InvalidFrequencyIsRejected ==
    \A k \in CallsOf({"DorisObservationCode"}) :
        trace[k].arg.n \in FrequencyTypes =>
            /\ trace[k].arg.f \notin {1, 2} => trace[k].out = runtime_error
            /\ trace[k].arg.f \in {1, 2} =>
                   trace[k].out = Val("code", trace[k].arg.n, "", trace[k].arg.f)

\* C21, for the frequencies a signed char holds
C21_FrequenciesOfASignedCharAreChecked ==
    \A k \in CallsOf({"DorisObservationCode"}) :
        (trace[k].arg.n \in FrequencyTypes
           /\ trace[k].arg.f = ToSignedChar(trace[k].arg.f)) =>
            /\ trace[k].arg.f \notin {1, 2} => trace[k].out = runtime_error
            /\ trace[k].arg.f \in {1, 2} =>
                   trace[k].out = Val("code", trace[k].arg.n, "", trace[k].arg.f)

(***************************************************************************)
(* Properties of Spec, continued.                                          *)
(***************************************************************************)
\* C22: in every block returned as successfully read, the beacon id of every
\* group of observations is the internal code of a beacon the header of the
\* file declares; a group whose id is the code of no declared beacon is not
\* accepted.
C22_BeaconIdsAreDeclared ==
    (Called /\ last.outcome = "block") =>
        \A g \in 1..Len(last.block.mbeacon_obs) :
            Bytes(last.block.mbeacon_obs[g].m_beacon_id, 0, BEACON_ID_LEN)
                \in StationCodes(input)

\* C22, for the files whose groups bear the codes of declared beacons and
\* hold at least one line
C22_DeclaredIdsAreKept ==
    (Called /\ last.outcome = "block" /\ input.k > 0
       /\ input.mut \notin {"unknownid", "trunc"}) =>
        \A g \in 1..Len(last.block.mbeacon_obs) :
            Bytes(last.block.mbeacon_obs[g].m_beacon_id, 0, BEACON_ID_LEN)
                \in StationCodes(input)

\* C27: a successful read of a record that declares b beacons, the header
\* declaring n observation codes, consumes 1 + b * lines_per_beacon() lines,
\* for every n >= 0 and b >= 0: the stream then stands at the epoch line of
\* the next record, or at the end of the file.
C27_ARecordIsConsumedWhole ==
    (StartedRecord /\ last.outcome = "block") =>
        /\ m_stream.pos - last.stream.pos
             = 1 + DeclaredStations * lines_per_beacon(m_obs_codes)
        /\ m_stream.pos <= FileLen(input) => IsEpochLine(input, m_stream.pos)
        /\ m_stream.pos <= FileLen(input) + 1

\* C27, for the records whose lines are all in the file and whose station
\* count a signed char holds
C27_AWholeRecordIsConsumedWhole ==
    (StartedRecord /\ last.outcome = "block" /\ input.mut # "trunc"
       /\ DeclaredStations < 2 ^ (SCHAR_BITS - 1)) =>
        /\ m_stream.pos - last.stream.pos
             = 1 + DeclaredStations * lines_per_beacon(m_obs_codes)
        /\ last.reads = 1 + DeclaredStations * lines_per_beacon(m_obs_codes)
        /\ m_stream.pos <= FileLen(input) => IsEpochLine(input, m_stream.pos)
        /\ m_stream.pos <= FileLen(input) + 1

\* the first record of the file is whole and declares the beacons it holds
FirstRecordWhole ==
    /\ input.e >= 1
    /\ input.mut # "stations"
    /\ input.mut = "none" \/ input.at > RecordLines(input.b, input.k)

\* C29: every call of begin() puts the stream at the start of the data
\* section with eofbit and failbit cleared, and returns an iterator that
\* holds the first record of the file, whatever was read before and whether
\* or not an iteration had reached End; so an iteration started again from
\* begin() yields the records of the file again, in file order.
C29_BeginStartsOver ==
    /\ last.op = "begin" =>
           /\ last.stream = [pos |-> 1, eof |-> FALSE, fail |-> FALSE]
           /\ FirstRecordWhole =>
                  /\ last.outcome = "block"
                  /\ its["a"].m_rnx = "rnx"
                  /\ BlockOfRecord(its["a"].m_current, 0)
                  /\ yielded["a"] = <<its["a"].m_current>>
           /\ input.e = 0 => last.outcome = "end"
    /\ (last.op \in {"begin", "incr"} /\ FirstRecordWhole) =>
           \A j \in 1..Len(yielded["a"]) :
               (input.mut = "none" \/ j = 1) =>
                   BlockOfRecord(yielded["a"][j], j - 1)

C29_Witness ==
    /\ last.op = "begin"
    /\ last.found.eof /\ last.found.fail
    /\ last.found.pos = FileLen(input) + 1
    /\ input.e = 1 /\ input.b = 2 /\ input.k = 6 /\ input.mut = "none"
    /\ ~m_stream.eof
    /\ BlockOfRecord(its["a"].m_current, 0)

\* C29, for a begin() called before the iteration reached End
C29_WitnessMidway ==
    /\ last.op = "begin"
    /\ last.found.pos = 1 + RecordLines(input.b, input.k)
    /\ ~last.found.eof
    /\ input.e = 2 /\ input.b = 1 /\ input.k = 1 /\ input.mut = "none"
    /\ BlockOfRecord(its["a"].m_current, 0)

\* C30: an iterator is equal to end() if and only if it has reached End: it
\* differs from end() after every increment that yielded a block (and after
\* one that failed), it is equal to end() once an increment found the end of
\* the file and from then on, and begin() on a file whose data section is
\* empty is equal to end().
C30_EqualToEndMeansEnd ==
    (pc = "ready" /\ last.op \in {"begin", "incr"}) =>
        /\ iterator_eq(its[last.iter], end)
             <=> last.outcome \in {"end", "noop"}
        /\ last.outcome = "noop" => iterator_eq(last.before, end)
        /\ last.outcome = "block" => ~iterator_eq(its[last.iter], end)
        /\ (last.op = "begin" /\ FileLen(input) = 0) =>
               iterator_eq(its[last.iter], end)

C30_Witness ==
    /\ pc = "ready"
    /\ last.op = "incr" /\ last.outcome = "end"
    /\ Len(yielded["a"]) = 2
    /\ its["a"].m_current # EmptyBlock
    /\ iterator_eq(its["a"], end)

\* C30, for begin() on an empty data section
C30_WitnessEmpty ==
    /\ pc = "ready"
    /\ FileLen(input) = 0
    /\ last.op = "begin"
    /\ iterator_eq(its["a"], end)

----------------------------------------------------------------------------
\* line n of the file as getline delivers it: its bytes, none for a line the
\* file does not hold
PhysicalLine(n) == IF n <= FileLen(input) THEN FileTable[input][n] ELSE <<>>

\* a line buffer that holds the line and nothing else: the line, then NULs
Alone(l) == [c \in 1..MAX_RECORD_CHARS |-> IF c <= Len(l) THEN l[c] ELSE NUL]

\* v is what observation i decodes to from a buffer: the number of the field
\* of slot (i mod 5), or the missing sentinel, over scale factor i, and the
\* two bytes after the field
DecodedAlone(v, buf, i, off) ==
    \E field \in {Bytes(buf, off, OBS_FIELD) \o <<NUL, NUL>>} :
      \E tres \in {from_chars_double(
                      CharRange(field, skipws(field, 0), OBS_SLOT))} :
        /\ buf_is_empty(field) \/ tres.ok
        /\ v = [m_value |->
                  DivByInt(IF buf_is_empty(field)
                           THEN OBSERVATION_VALUE_MISSING ELSE tres.val,
                           m_obs_scale_factors[i + 1]),
                m_flag1 |-> obs_flags(buf, off)[1],
                m_flag2 |-> obs_flags(buf, off)[2]]

\* C31 (as claimed): every header field, beacon id, value and flag of a
\* block returned as successfully read is what its line of the file decodes
\* to in a buffer that holds that line and nothing else; no byte an earlier
\* line left in the buffer is decoded, when the line is shorter than the
\* columns decoded or the line could not be read.
C31_EveryFieldIsDecodedFromItsLine ==
    (StartedRecord /\ last.outcome = "block") =>
        /\ last.block.mheader
             = resolve_block_epoch(Alone(EpochLineRead), EmptyHeader, 0).hdr
        /\ \A g \in 1..Len(last.block.mbeacon_obs) :
             /\ Len(last.block.mbeacon_obs[g].m_values) > 0 =>
                  last.block.mbeacon_obs[g].m_beacon_id
                    = Bytes(Alone(PhysicalLine(SlotLine(g - 1, 0))),
                            0, BEACON_ID_LEN) \o <<NUL>>
             /\ \A i \in 1..Len(last.block.mbeacon_obs[g].m_values) :
                  DecodedAlone(
                      last.block.mbeacon_obs[g].m_values[i],
                      Alone(PhysicalLine(SlotLine(g - 1, i - 1))), i - 1,
                      OBS_AT + ((i - 1) % MAX_OBS_PER_DATA_LINE) * OBS_SLOT)

\* C31, for the records whose lines are all in the file, each with all its
\* slots
C31_WholeLinesAreDecodedAlone ==
    (WholeRecord /\ last.outcome = "block")
      => C31_EveryFieldIsDecodedFromItsLine

\* a block returned for a record with a short line: the slot the line lacks
\* holds the value the beacon before has for that slot
C31_ShortLineRepeatsTheBeaconBefore ==
    /\ DepartureInRecord /\ input.mut = "short" /\ input.k = 5
    /\ input.slot = 3 /\ last.outcome = "block"
    /\ last.block.mbeacon_obs[BeaconOf(input, input.at) + 1].m_values[5]
         = last.block.mbeacon_obs[BeaconOf(input, input.at)].m_values[5]

----------------------------------------------------------------------------
\* the last block iterator i read successfully
LastBlockRead(i) == yielded[i][Len(yielded[i])]

\* C32 (as claimed): after an increment that fails with an error, wherever
\* in the record (epoch line, beacon marker or observation field), the
\* iterator dereferences to the last block that was successfully read:
\* nothing of the failed epoch, header or beacons, is in it.
C32_FailedIncrementKeepsTheLastBlock ==
    (last.op = "incr" /\ last.outcome = "error") =>
        /\ Len(yielded[last.iter]) >= 1
        /\ its[last.iter].m_current = LastBlockRead(last.iter)

\* C32, for the errors met at the epoch line before any of its fields is
\* stored: a line that cannot be read, without its '>' or with a bad date
C32_RejectedEpochLineKeepsTheBlock ==
    (last.op = "incr" /\ last.outcome = "error" /\ ~StartedRecord) =>
        its[last.iter].m_current = last.before.m_current

\* a failed increment after which the iterator holds the header of the
\* failed epoch and the beacons decoded before the error
C32_FailedEpochIsObservable ==
    /\ last.op = "incr" /\ last.outcome = "error" /\ last.status = 2
    /\ DepartureInRecord /\ input.mut = "garbage"
    /\ BeaconOf(input, input.at) = 1
    /\ Len(yielded[last.iter]) = 1
    /\ its[last.iter].m_current.mheader.m_epoch
         = DateField(RecordOf(input, input.at))
    /\ its[last.iter].m_current.mheader.m_epoch
         # LastBlockRead(last.iter).mheader.m_epoch
    /\ Len(its[last.iter].m_current.mbeacon_obs) = 2
    /\ Len(its[last.iter].m_current.mbeacon_obs[2].m_values) = input.slot

=============================================================================
